---- MODULE Spec2Model ----
(***************************************************************************)
(* A model of hwbench/environment/vendors/vendor.py: the metric value      *)
(* objects, the generic BMC controller (local discovery parsing, Redfish   *)
(* session handling, fan and power aggregation) and Vendor.prepare().      *)
(*                                                                         *)
(* Python values are modelled as follows.                                   *)
(*   - a dict is an insertion-ordered sequence of <<key, value>> pairs     *)
(*     (a JSON document whose order is irrelevant is a TLA+ function);     *)
(*   - a str / bytes value on which the code does string surgery is a      *)
(*     sequence of one-character strings;                                  *)
(*   - the outcome of a call is a record  [kind |-> "return", value |-> v] *)
(*     or [kind |-> "raise", exc |-> e].                                   *)
(*                                                                         *)
(* SpecMetric, SpecFans and SpecPower apply the pure parts to every input  *)
(* of a bounded set; SpecFrame, SpecParse and SpecSession are the state    *)
(* machines of a controller whose documents change, whose discovery        *)
(* mapping is filled, and whose remote session is opened and released.     *)
(***************************************************************************)
EXTENDS Integers, Sequences, FiniteSets, TLC

VARIABLES
    m1, m2, compared, eq12, eq21,        \* two metric objects and m1 == m2, m2 == m1
    thermal, power, op, result,          \* what get_thermal()/get_power() return; the last read_* call
    bmc, redfish_obj,                    \* BMC.bmc (discovery mapping), BMC.redfish_obj
    vendor_bmc, controllers, config,     \* Vendor.bmc, the BMC objects constructed so far, config.cfg
    sessions, pc,                        \* the remote sessions created so far; the process status
    response, url_result,                \* what the session's get() did last, and get_redfish_url()'s outcome
    stdout, ip_result                    \* last bytes given to parse_cmd(); outcome of the last get_ip()

metricVars == <<m1, m2, compared, eq12, eq21>>
readVars   == <<thermal, power, op, result>>
bmcVars    == <<bmc, redfish_obj>>
sessVars   == <<vendor_bmc, controllers, config, sessions, response, url_result>>
parseVars  == <<stdout, ip_result>>
vars == <<m1, m2, compared, eq12, eq21, thermal, power, op, result, bmc, redfish_obj,
          vendor_bmc, controllers, config, sessions, pc, response, url_result,
          stdout, ip_result>>

None == [py |-> "None"]

Return(v) == [kind |-> "return", value |-> v]

Raise(e) == [kind |-> "raise", exc |-> e]

(***************************************************************************)
(* Insertion-ordered dict.                                                 *)
(***************************************************************************)
DictHas(d, k) == \E i \in 1..Len(d) : d[i][1] = k

DictGet(d, k) == d[CHOOSE i \in 1..Len(d) : d[i][1] = k][2]

\* d[k] = v : an existing key keeps its position, a new key goes last
DictSet(d, k, v) ==
    IF DictHas(d, k)
    THEN [i \in 1..Len(d) |-> IF d[i][1] = k THEN <<k, v>> ELSE d[i]]
    ELSE Append(d, <<k, v>>)

(***************************************************************************)
(* Metric value objects.                                                   *)
(***************************************************************************)
\* a name is a Python str or a member of one of the category enumerations
StrName(s) == [py |-> "str", s |-> s]

EnumName(e, member) == [py |-> e, member |-> member]

ThermalContext ==
    [INTAKE |-> "Intake", CPU |-> "CPU", MEMORY |-> "Memory",
     SYSTEMBOARD |-> "SystemBoard", POWERSUPPLY |-> "PowerSupply"]

FanContext == [FAN |-> "Fan"]

PowerContext == [POWER |-> "Power"]

\* str(x) for a str or an enumeration member (the enumerations define __str__)
str(x) ==
    CASE x.py = "str" -> x.s
      [] x.py = "ThermalContext" -> ThermalContext[x.member]
      [] x.py = "FanContext" -> FanContext[x.member]
      [] x.py = "PowerContext" -> PowerContext[x.member]

MonitorMetric(name, value, unit) ==
    [cls |-> "MonitorMetric", name |-> name, value |-> value, unit |-> unit]

Temperature(name, value) ==
    [MonitorMetric(name, value, "Celsius") EXCEPT !.cls = "Temperature"]

Power(name, value) ==
    [MonitorMetric(name, value, "Watts") EXCEPT !.cls = "Power"]

get_name(m) == m.name

get_value(m) == m.value

get_unit(m) == m.unit

\* variant of __eq__ that compares the names without str()
EqNoStr(self, compared_metric) ==
    /\ self.name = get_name(compared_metric)
    /\ self.value = get_value(compared_metric)
    /\ self.unit = get_unit(compared_metric)

\* MonitorMetric.__eq__
Eq(self, compared_metric) ==
    /\ str(self.name) = str(get_name(compared_metric))
    /\ self.value = get_value(compared_metric)
    /\ self.unit = get_unit(compared_metric)

MetricNames ==
    {StrName("CPU"), StrName("Intake"), StrName("Fan 1"),
     EnumName("ThermalContext", "CPU"), EnumName("ThermalContext", "INTAKE"),
     EnumName("FanContext", "FAN")}

MetricValues == {0, 40}

MetricUnits == {"Celsius", "Watts", "Percent"}

Metrics ==
    {MonitorMetric(n, v, u) : n \in MetricNames, v \in MetricValues, u \in MetricUnits}
    \cup {Temperature(n, v) : n \in MetricNames, v \in MetricValues}
    \cup {Power(n, v) : n \in MetricNames, v \in MetricValues}

(***************************************************************************)
(* str.split() / bytes.strip(): whitespace handling.                       *)
(***************************************************************************)
\* ASCII whitespace: space, tab, newline, carriage return, vertical tab, form feed
Whitespace == {" ", "\t", "\n", "\r", "\\x0b", "\f"}

RECURSIVE lstrip(_)
lstrip(s) == IF s # <<>> /\ Head(s) \in Whitespace THEN lstrip(Tail(s)) ELSE s

RECURSIVE rstrip(_)
rstrip(s) ==
    IF s # <<>> /\ s[Len(s)] \in Whitespace THEN rstrip(SubSeq(s, 1, Len(s) - 1)) ELSE s

\* s.strip()
strip(s) == rstrip(lstrip(s))

RECURSIVE TakeWord(_)
TakeWord(s) ==
    IF s = <<>> \/ Head(s) \in Whitespace THEN <<>> ELSE <<Head(s)>> \o TakeWord(Tail(s))

\* s.split() with no separator: the list of maximal runs of non-whitespace
RECURSIVE split(_)
split(s) ==
    LET t == lstrip(s) IN
    IF t = <<>> THEN <<>>
    ELSE LET w == TakeWord(t) IN <<w>> \o split(SubSeq(t, Len(w) + 1, Len(t)))

\* list[0]
First(list) == IF list = <<>> THEN Raise("IndexError") ELSE Return(list[1])

(***************************************************************************)
(* Generic fan and power aggregation.  A raw document is a function from   *)
(* its keys to lists of entries.                                           *)
(***************************************************************************)
EmptyDoc == <<>>

\* dict.get(key): None when the key is absent
get(doc, key) == IF key \in DOMAIN doc THEN [py |-> "list", items |-> doc[key]] ELSE None

\* variant of the loop of read_fans() that leaves out the fans that do not spin
RECURSIVE fans_loop_spinning(_, _)
fans_loop_spinning(fans, entries) ==
    IF entries = <<>> THEN fans
    ELSE LET f == Head(entries) IN
         IF f.Reading = 0 THEN fans_loop_spinning(fans, Tail(entries))
         ELSE fans_loop_spinning(
                  DictSet(fans, f.Name, MonitorMetric(f.Name, f.Reading, f.ReadingUnits)),
                  Tail(entries))

RECURSIVE fans_loop(_, _)
fans_loop(fans, entries) ==
    IF entries = <<>> THEN fans
    ELSE LET f == Head(entries)
             name == f.Name
         IN fans_loop(DictSet(fans, name, MonitorMetric(f.Name, f.Reading, f.ReadingUnits)),
                      Tail(entries))

\* BMC.read_fans, given what get_thermal() returns
read_fans(doc) ==
    LET entries == get(doc, "Fans") IN
    IF entries = None THEN Raise("TypeError")      \* for ... in None
    ELSE Return(<< <<FanContext.FAN, fans_loop(<<>>, entries.items)>> >>)

\* variant of the loop of read_power_consumption() that keeps the first entry
RECURSIVE chassis_first(_, _)
chassis_first(chassis, entries) ==
    IF entries = <<>> THEN chassis
    ELSE IF DictHas(chassis, "Chassis") THEN chassis
    ELSE chassis_first(DictSet(chassis, "Chassis",
                               Power("Chassis", Head(entries).PowerConsumedWatts)),
                       Tail(entries))

RECURSIVE chassis_loop(_, _)
chassis_loop(chassis, entries) ==
    IF entries = <<>> THEN chassis
    ELSE chassis_loop(DictSet(chassis, "Chassis",
                              Power("Chassis", Head(entries).PowerConsumedWatts)),
                      Tail(entries))

\* BMC.read_power_consumption, given what get_power() returns
read_power_consumption(doc) ==
    LET entries == get(doc, "PowerControl") IN
    IF entries = None THEN Raise("TypeError")
    ELSE Return(<< <<PowerContext.POWER, chassis_loop(<<>>, entries.items)>> >>)

\* variant that names the metric by the full label
psu_metric_full(psu) == Return(Power(psu.Name, psu.PowerInputWatts))

\* Power(psu["Name"].split()[0], psu["PowerInputWatts"])
psu_metric(psu) ==
    LET token == First(split(psu.Name)) IN
    IF token.kind = "raise" THEN token
    ELSE Return(Power(token.value, psu.PowerInputWatts))

RECURSIVE psus_loop(_, _)
psus_loop(psus, entries) ==
    IF entries = <<>> THEN Return(psus)
    ELSE LET psu == Head(entries)
             metric == psu_metric(psu)
         IN IF metric.kind = "raise" THEN metric
            ELSE psus_loop(DictSet(psus, psu.Name, metric.value), Tail(entries))

\* BMC.read_power_supplies, given what get_power() returns
read_power_supplies(doc) ==
    LET entries == get(doc, "PowerSupplies") IN
    IF entries = None THEN Raise("TypeError")
    ELSE LET inner == psus_loop(<<>>, entries.items) IN
         IF inner.kind = "raise" THEN inner
         ELSE Return(<< <<PowerContext.POWER, inner.value>> >>)

(***************************************************************************)
(* Values every specification leaves alone when it does not use them.      *)
(***************************************************************************)
IdleMetric ==
    m1 = None /\ m2 = None /\ compared = FALSE /\ eq12 = FALSE /\ eq21 = FALSE

IdleRead == thermal = EmptyDoc /\ power = EmptyDoc /\ op = "none" /\ result = None

IdleBmc == bmc = <<>> /\ redfish_obj = None

IdleSess ==
    /\ vendor_bmc = None /\ controllers = 0 /\ config = <<>> /\ sessions = <<>>
    /\ pc = "running" /\ response = None /\ url_result = None

IdleParse == stdout = <<>> /\ ip_result = None

\* all sequences over S of length at most n
SeqsUpTo(S, n) == UNION {[1..k -> S] : k \in 0..n}

(***************************************************************************)
(* SpecMetric: m1 == m2 on every pair of metric objects.                   *)
(***************************************************************************)
InitMetric ==
    /\ m1 \in Metrics /\ m2 \in Metrics
    /\ compared = FALSE /\ eq12 = FALSE /\ eq21 = FALSE
    /\ IdleRead /\ IdleBmc /\ IdleSess /\ IdleParse

\* evaluates m1 == m2 and m2 == m1
Compare ==
    /\ ~compared
    /\ compared' = TRUE
    /\ eq12' = Eq(m1, m2)
    /\ eq21' = Eq(m2, m1)
    /\ UNCHANGED <<m1, m2, readVars, bmcVars, sessVars, pc, parseVars>>

NextMetric == Compare

SpecMetric == InitMetric /\ [][NextMetric]_vars

\* C9: m1 == m2 holds exactly when the names agree as strings and the values
\* and the units agree; a Temperature never equals a Power; == is symmetric.
MetricEquality ==
    compared =>
        /\ eq12 = (/\ str(m1.name) = str(m2.name)
                   /\ m1.value = m2.value
                   /\ m1.unit = m2.unit)
        /\ eq21 = eq12
        /\ (m1.cls = "Temperature" /\ m2.cls = "Power" => ~eq12)

\* two equal metrics of different classes whose names differ as objects
MetricEqualityWitness ==
    compared /\ eq12 /\ m1.name # m2.name /\ m1.cls # m2.cls

(***************************************************************************)
(* SpecFans: read_fans() on every thermal document.                        *)
(***************************************************************************)
MaxFans == 3

FanEntries ==
    [Name : {"Fan 1", "Fan 2", "Fan 3"}, Reading : {0, 47}, ReadingUnits : {"Percent"}]

\* the seven fans of the XL225N sample, two of them idle
SampleFans ==
    [i \in 1..7 |->
        [Name |-> <<"Fan 1", "Fan 2", "Fan 3", "Fan 4", "Fan 5", "Fan 6", "Fan 7">>[i],
         Reading |-> <<47, 47, 0, 47, 0, 48, 48>>[i],
         ReadingUnits |-> "Percent"]]

ThermalDocs ==
    {EmptyDoc, "Temperatures" :> <<>>, "Fans" :> SampleFans}
    \cup {"Fans" :> l : l \in SeqsUpTo(FanEntries, MaxFans)}

InitFans ==
    /\ thermal \in ThermalDocs
    /\ power = EmptyDoc /\ op = "none" /\ result = None
    /\ IdleMetric /\ IdleBmc /\ IdleSess /\ IdleParse

\* variant of read_fans() that keeps the fetched document in self.bmc
ReadFansKeepsDocument ==
    /\ op' = "read_fans"
    /\ result' = read_fans(thermal)
    /\ bmc' = DictSet(bmc, <<"F", "a", "n", "s">>, <<>>)
    /\ UNCHANGED <<thermal, power, metricVars, redfish_obj, sessVars, pc, parseVars>>

ReadFans ==
    /\ op' = "read_fans"
    /\ result' = read_fans(thermal)
    /\ UNCHANGED <<thermal, power, metricVars, bmcVars, sessVars, pc, parseVars>>

NextFans == ReadFans

SpecFans == InitFans /\ [][NextFans]_vars

EmptyFans == Return(<< <<"Fan", <<>>>> >>)

\* C1: on a thermal document with no "Fans" key read_fans() returns
\* {"Fan": {}} and raises nothing.
NoFansKeyGivesEmptyFan ==
    (op = "read_fans" /\ "Fans" \notin DOMAIN thermal) => result = EmptyFans

\* index of the first / last entry of list L named n
FirstIdx(L, n) == CHOOSE i \in 1..Len(L) : L[i].Name = n /\ \A j \in 1..(i - 1) : L[j].Name # n

LastIdx(L, n) == CHOOSE i \in 1..Len(L) : L[i].Name = n /\ \A j \in (i + 1)..Len(L) : L[j].Name # n

\* C6: on a thermal document with a "Fans" list read_fans() returns {"Fan": M},
\* M has one entry per distinct fan name, M[Name] is the metric of the last
\* entry with that name (zero readings included), and M's keys are ordered by
\* first appearance in the document.
FansInDocumentOrder ==
    (op = "read_fans" /\ "Fans" \in DOMAIN thermal) =>
        /\ result.kind = "return"
        /\ Len(result.value) = 1
        /\ result.value[1][1] = "Fan"
        /\ LET M == result.value[1][2]
               L == thermal["Fans"]
           IN /\ Len(M) = Cardinality({L[i].Name : i \in 1..Len(L)})
              /\ \A i \in 1..Len(L) : DictHas(M, L[i].Name)
              /\ \A a \in 1..Len(M) :
                    LET e == L[LastIdx(L, M[a][1])]
                    IN M[a][2] = MonitorMetric(e.Name, e.Reading, e.ReadingUnits)
              /\ \A a, b \in 1..Len(M) :
                    a < b => FirstIdx(L, M[a][1]) < FirstIdx(L, M[b][1])

\* a repeated fan name with a new reading, a zero reading, two names
FansInDocumentOrderWitness ==
    /\ op = "read_fans" /\ "Fans" \in DOMAIN thermal
    /\ LET L == thermal["Fans"] IN
        /\ \E i, j \in 1..Len(L) : i < j /\ L[i].Name = L[j].Name /\ L[i].Reading # L[j].Reading
        /\ \E i \in 1..Len(L) : L[i].Reading = 0
        /\ Len(result.value[1][2]) = 2

(***************************************************************************)
(* SpecPower: read_power_consumption() and read_power_supplies() on every  *)
(* power document.                                                         *)
(***************************************************************************)
MaxControls == 2

MaxPsus == 2

ControlEntries == [PowerConsumedWatts : {100, 200}]

\* "PSU 1", "PSU 2", " PSU\t1", "PSU", "" and " "
PsuNames ==
    {<<"P", "S", "U", " ", "1">>, <<"P", "S", "U", " ", "2">>,
     <<" ", "P", "S", "U", "\t", "1">>, <<"P", "S", "U">>, <<>>, <<" ">>}

PsuEntries == [Name : PsuNames, PowerInputWatts : {0, 42}]

PowerDocs ==
    {c @@ p : c \in {EmptyDoc} \cup {"PowerControl" :> l : l \in SeqsUpTo(ControlEntries, MaxControls)},
              p \in {EmptyDoc} \cup {"PowerSupplies" :> l : l \in SeqsUpTo(PsuEntries, MaxPsus)}}

InitPower ==
    /\ power \in PowerDocs
    /\ thermal = EmptyDoc /\ op = "none" /\ result = None
    /\ IdleMetric /\ IdleBmc /\ IdleSess /\ IdleParse

ReadPowerConsumption ==
    /\ op' = "read_power_consumption"
    /\ result' = read_power_consumption(power)
    /\ UNCHANGED <<thermal, power, metricVars, bmcVars, sessVars, pc, parseVars>>

ReadPowerSupplies ==
    /\ op' = "read_power_supplies"
    /\ result' = read_power_supplies(power)
    /\ UNCHANGED <<thermal, power, metricVars, bmcVars, sessVars, pc, parseVars>>

NextPower == ReadPowerConsumption \/ ReadPowerSupplies

SpecPower == InitPower /\ [][NextPower]_vars

\* C7: read_power_consumption() returns {"Power": {}} on an empty
\* "PowerControl" list and otherwise {"Power": {"Chassis": m}} with m the Watts
\* metric named "Chassis" of the LAST control entry, and no other inner key.
ChassisIsLastControl ==
    (op = "read_power_consumption" /\ "PowerControl" \in DOMAIN power) =>
        LET L == power["PowerControl"] IN
        IF L = <<>>
        THEN result = Return(<< <<"Power", <<>>>> >>)
        ELSE result = Return(<< <<"Power",
                 << <<"Chassis", [cls |-> "Power", name |-> "Chassis",
                                  value |-> L[Len(L)].PowerConsumedWatts,
                                  unit |-> "Watts"]>> >> >> >>)

\* several control entries, the first and the last with different readings
ChassisIsLastControlWitness ==
    /\ op = "read_power_consumption" /\ "PowerControl" \in DOMAIN power
    /\ LET L == power["PowerControl"] IN
        Len(L) >= 2 /\ L[1].PowerConsumedWatts # L[Len(L)].PowerConsumedWatts

HasToken(s) == \E i \in 1..Len(s) : s[i] \notin Whitespace

\* the first maximal run of non-whitespace of s
FirstToken(s) ==
    LET a == CHOOSE i \in 1..Len(s) : s[i] \notin Whitespace /\ \A j \in 1..(i - 1) : s[j] \in Whitespace
        b == CHOOSE j \in a..Len(s) :
                /\ \A k \in a..j : s[k] \notin Whitespace
                /\ (j = Len(s) \/ s[j + 1] \in Whitespace)
    IN SubSeq(s, a, b)

\* result is {"Power": M}, M keyed by the full names of L, each key holding the
\* Watts metric named by the first token of the name, valued by the last entry
PsuShape(res, L) ==
    /\ res.kind = "return"
    /\ Len(res.value) = 1
    /\ res.value[1][1] = "Power"
    /\ LET M == res.value[1][2] IN
        /\ Len(M) = Cardinality({L[i].Name : i \in 1..Len(L)})
        /\ \A i \in 1..Len(L) : DictHas(M, L[i].Name)
        /\ \A a \in 1..Len(M) :
              LET e == L[LastIdx(L, M[a][1])] IN
              /\ HasToken(e.Name)
              /\ M[a][2] = [cls |-> "Power", name |-> FirstToken(e.Name),
                            value |-> e.PowerInputWatts, unit |-> "Watts"]

\* C5 as stated: on every power document with a "PowerSupplies" list,
\* read_power_supplies() returns {"Power": M} with M[e.Name] the Watts metric
\* named by the first whitespace-delimited token of e.Name.
PsuAlwaysReturnsMapping ==
    (op = "read_power_supplies" /\ "PowerSupplies" \in DOMAIN power) =>
        PsuShape(result, power["PowerSupplies"])

\* C5 as amended: the mapping is returned when every entry's Name holds a
\* non-whitespace character; when some Name is empty or all whitespace the
\* call raises IndexError.
PsuReturnsMappingOrIndexError ==
    (op = "read_power_supplies" /\ "PowerSupplies" \in DOMAIN power) =>
        LET L == power["PowerSupplies"] IN
        IF \A i \in 1..Len(L) : HasToken(L[i].Name)
        THEN PsuShape(result, L)
        ELSE result = Raise("IndexError")

\* a repeated name with a new reading, keyed by a name longer than its token
PsuReturnsMappingWitness ==
    /\ op = "read_power_supplies" /\ "PowerSupplies" \in DOMAIN power
    /\ result.kind = "return"
    /\ LET L == power["PowerSupplies"]
           M == result.value[1][2]
       IN /\ \E i, j \in 1..Len(L) :
                i < j /\ L[i].Name = L[j].Name /\ L[i].PowerInputWatts # L[j].PowerInputWatts
          /\ \E a \in 1..Len(M) : M[a][2].name # M[a][1]

(***************************************************************************)
(* SpecFrame: the raw documents change between read_* calls on a           *)
(* controller that went through discovery and connection (or did not).     *)
(***************************************************************************)
MaxDocLen == 2

IPKey == <<"I", "P", " ", "A", "d", "d", "r", "e", "s", "s">>

IPValue == <<"1", "0", ".", "0", ".", "0", ".", "1">>

FrameFanEntries ==
    {[Name |-> "Fan 1", Reading |-> 47, ReadingUnits |-> "Percent"],
     [Name |-> "Fan 2", Reading |-> 0, ReadingUnits |-> "Percent"]}

FramePsuEntries ==
    {[Name |-> <<"P", "S", "U", " ", "1">>, PowerInputWatts |-> 42],
     [Name |-> <<"P", "S", "U", " ", "2">>, PowerInputWatts |-> 0],
     [Name |-> <<>>, PowerInputWatts |-> 42]}

\* the documents one change away from doc: key dropped, key set to an empty
\* list, or one entry appended to the key's list
DocChanges(doc, key, entries) ==
    {[k \in DOMAIN doc \ {key} |-> doc[k]]}
    \cup {(key :> <<>>) @@ doc}
    \cup {(key :> Append(doc[key], e)) @@ doc :
            e \in IF key \in DOMAIN doc /\ Len(doc[key]) < MaxDocLen THEN entries ELSE {}}

InitFrame ==
    /\ thermal = EmptyDoc /\ power = EmptyDoc /\ op = "none" /\ result = None
    /\ bmc \in {<<>>, << <<IPKey, IPValue>> >>}
    /\ redfish_obj \in {None, [py |-> "session", id |-> 1]}
    /\ IdleMetric /\ IdleSess /\ IdleParse

\* the controller reports something else from now on
ChangeThermal ==
    /\ \E d \in DocChanges(thermal, "Fans", FrameFanEntries) : thermal' = d
    /\ op' = "none" /\ result' = None
    /\ UNCHANGED <<power, metricVars, bmcVars, sessVars, pc, parseVars>>

ChangePower ==
    /\ \E d \in DocChanges(power, "PowerControl", ControlEntries)
                \cup DocChanges(power, "PowerSupplies", FramePsuEntries) : power' = d
    /\ op' = "none" /\ result' = None
    /\ UNCHANGED <<thermal, metricVars, bmcVars, sessVars, pc, parseVars>>

NextFrame ==
    \/ ChangeThermal
    \/ ChangePower
    \/ ReadFans
    \/ ReadPowerConsumption
    \/ ReadPowerSupplies

SpecFrame == InitFrame /\ [][NextFrame]_vars

ReadOps == {"read_fans", "read_power_consumption", "read_power_supplies"}

ReadResult(o, t, p) ==
    CASE o = "read_fans" -> read_fans(t)
      [] o = "read_power_consumption" -> read_power_consumption(p)
      [] o = "read_power_supplies" -> read_power_supplies(p)

RECURSIVE find_byte(_, _, _)
find_byte(s, c, from) ==
    IF from > Len(s) THEN 0
    ELSE IF s[from] = c THEN from
    ELSE find_byte(s, c, from + 1)

\* stdout.split(b"\n")
RECURSIVE split_lines(_)
split_lines(s) ==
    LET i == find_byte(s, "\n", 1) IN
    IF i = 0 THEN <<s>>
    ELSE <<SubSeq(s, 1, i - 1)>> \o split_lines(SubSeq(s, i + 1, Len(s)))

RECURSIVE rfind_loop(_, _)
rfind_loop(row, from) ==
    IF from < 1 THEN 0
    ELSE IF row[from] = ":" /\ row[from + 1] = " " THEN from
    ELSE rfind_loop(row, from - 1)

\* variant that looks for the last b": " in row (as rsplit would)
rfind_sep(row, from) == rfind_loop(row, Len(row) - 1)

\* index of the first b": " in row, 0 when there is none
RECURSIVE find_sep(_, _)
find_sep(row, from) ==
    IF from + 1 > Len(row) THEN 0
    ELSE IF row[from] = ":" /\ row[from + 1] = " " THEN from
    ELSE find_sep(row, from + 1)

\* bytes.decode("utf-8")
RECURSIVE decode(_)
decode(b) ==
    IF b = <<>> THEN Return(<<>>)
    ELSE IF Head(b) = "\\xc3"
    THEN IF Len(b) >= 2 /\ b[2] = "\\xa9"
         THEN LET rest == decode(SubSeq(b, 3, Len(b))) IN
              IF rest.kind = "raise" THEN rest ELSE Return(<<"\\u00e9">> \o rest.value)
         ELSE Raise("UnicodeDecodeError")
    ELSE IF Head(b) \in {"\\xa9", "\\xff"} THEN Raise("UnicodeDecodeError")
    ELSE LET rest == decode(Tail(b)) IN
         IF rest.kind = "raise" THEN rest ELSE Return(<<Head(b)>> \o rest.value)

\* the loop of parse_cmd over the rows left: the mapping as it ends up and
\* the outcome of the call
RECURSIVE parse_rows(_, _)
parse_rows(mapping, rows) ==
    IF rows = <<>> THEN [bmc |-> mapping, outcome |-> Return(mapping)]
    ELSE LET row == Head(rows)
             i == find_sep(row, 1)
         IN IF i = 0 THEN parse_rows(mapping, Tail(rows))
            ELSE LET key == SubSeq(row, 1, i - 1)
                     value == SubSeq(row, i + 2, Len(row))
                 IN IF strip(key) = <<>> THEN parse_rows(mapping, Tail(rows))
                    ELSE LET v == decode(strip(value))
                             k == decode(strip(key))
                         IN IF v.kind = "raise" THEN [bmc |-> mapping, outcome |-> v]
                            ELSE IF k.kind = "raise" THEN [bmc |-> mapping, outcome |-> k]
                            ELSE parse_rows(DictSet(mapping, k.value, v.value), Tail(rows))

\* BMC.parse_cmd(stdout, _stderr) on a controller whose mapping is `mapping`
parse_cmd(mapping, out) == parse_rows(mapping, split_lines(out))

\* h.fatal(msg): logs the message and ends the process
fatal(msg) == [kind |-> "fatal", msg |-> msg]

\* BMC.get_ip
get_ip(mapping) ==
    IF DictHas(mapping, IPKey) THEN Return(DictGet(mapping, IPKey))
    ELSE fatal("Cannot detect BMC ip")

(***************************************************************************)
(* SpecParse: the command runner hands outputs to parse_cmd(), get_ip()    *)
(* reads the mapping.                                                      *)
(***************************************************************************)
MaxRows == 2

\* b'IP Address   : 10.0.0.1'
RowIp1 ==
    <<"I", "P", " ", "A", "d", "d", "r", "e", "s", "s", " ", " ", " ", ":", " ", "1", "0", ".", "0", ".", "0", ".", "1">>

\* b'IP Address: 10.0.0.2\r'
RowIp2 ==
    <<"I", "P", " ", "A", "d", "d", "r", "e", "s", "s", ":", " ", "1", "0", ".", "0", ".", "0", ".", "2", "\r">>

\* b'a: b: c'
RowTwoSeps ==
    <<"a", ":", " ", "b", ":", " ", "c">>

\* b'a:b'
RowNoSep ==
    <<"a", ":", "b">>

\* b' : v'
RowBlankKey ==
    <<" ", ":", " ", "v">>

\* b'a: \xff'
RowBadValue ==
    <<"a", ":", " ", "\\xff">>

\* b'\xc3\xa9 : '
RowAccent ==
    <<"\\xc3", "\\xa9", " ", ":", " ">>

Rows == {RowIp1, RowIp2, RowTwoSeps, RowNoSep, RowBlankKey, RowBadValue, RowAccent}

\* the rows, each ended by a newline
RECURSIVE JoinLines(_)
JoinLines(rows) ==
    IF rows = <<>> THEN <<>> ELSE Head(rows) \o <<"\n">> \o JoinLines(Tail(rows))

Stdouts == {JoinLines(l) : l \in SeqsUpTo(Rows, MaxRows)}

InitParse ==
    /\ bmc = <<>> /\ redfish_obj = None
    /\ stdout = <<>> /\ ip_result = None
    /\ thermal = EmptyDoc /\ power = EmptyDoc /\ op = "none" /\ result = None
    /\ IdleMetric /\ IdleSess

\* the command runner returns the output of "ipmitool lan print"
RunCmd ==
    /\ pc = "running" /\ op # "run_cmd"
    /\ \E out \in Stdouts : stdout' = out
    /\ op' = "run_cmd"
    /\ UNCHANGED <<thermal, power, result, ip_result, metricVars, bmcVars, sessVars, pc>>

ParseCmd ==
    /\ pc = "running" /\ op = "run_cmd"
    /\ LET r == parse_cmd(bmc, stdout) IN
        /\ bmc' = r.bmc
        /\ result' = r.outcome
    /\ op' = "parse_cmd"
    /\ UNCHANGED <<thermal, power, stdout, ip_result, redfish_obj, metricVars, sessVars, pc>>

GetIp ==
    /\ pc = "running" /\ op # "run_cmd"
    /\ ip_result' = get_ip(bmc)
    /\ pc' = IF ip_result'.kind = "fatal" THEN "aborted" ELSE pc
    /\ op' = "get_ip"
    /\ UNCHANGED <<thermal, power, result, stdout, bmcVars, metricVars, sessVars>>

NextParse == RunCmd \/ ParseCmd \/ GetIp

SpecParse == InitParse /\ [][NextParse]_vars

NewlineAt(s) == {i \in 1..Len(s) : s[i] = "\n"}

RowCount(s) == Cardinality(NewlineAt(s)) + 1

\* position of the k-th newline of s
NthNewline(s, k) ==
    CHOOSE i \in NewlineAt(s) : Cardinality({j \in NewlineAt(s) : j <= i}) = k

\* the k-th line of s
RowAt(s, k) ==
    SubSeq(s, IF k = 1 THEN 1 ELSE NthNewline(s, k - 1) + 1,
              IF k = RowCount(s) THEN Len(s) ELSE NthNewline(s, k) - 1)

\* position of the first ": " of line r, 0 when it has none
SepAt(r) ==
    LET S == {i \in 1..(Len(r) - 1) : r[i] = ":" /\ r[i + 1] = " "} IN
    IF S = {} THEN 0 ELSE CHOOSE i \in S : \A j \in S : i <= j

Trim(s) ==
    LET N == {i \in 1..Len(s) : s[i] \notin Whitespace} IN
    IF N = {} THEN <<>>
    ELSE SubSeq(s, CHOOSE i \in N : \A j \in N : i <= j, CHOOSE i \in N : \A j \in N : j <= i)

KeyBytes(r) == Trim(SubSeq(r, 1, SepAt(r) - 1))

ValueBytes(r) == Trim(SubSeq(r, SepAt(r) + 2, Len(r)))

\* line r has a ": " and a non-empty trimmed key
Stores(r) == SepAt(r) # 0 /\ KeyBytes(r) # <<>>

\* line r stores something that is not UTF-8: the call ends there
Undecodable(r) ==
    Stores(r) /\ (decode(KeyBytes(r)).kind = "raise" \/ decode(ValueBytes(r)).kind = "raise")

\* the lines of s the call processes: those before the first undecodable one
Processed(s) == {k \in 1..RowCount(s) : \A j \in 1..k : ~Undecodable(RowAt(s, j))}

\* the processed lines of s that store under key
Hits(s, key) ==
    {k \in Processed(s) : Stores(RowAt(s, k)) /\ decode(KeyBytes(RowAt(s, k))).value = key}

ParseEffect(old, s, new) ==
    LET keys == {old[i][1] : i \in 1..Len(old)} \cup {new[i][1] : i \in 1..Len(new)}
                \cup {decode(KeyBytes(RowAt(s, k))).value :
                        k \in {j \in Processed(s) : Stores(RowAt(s, j))}}
    IN /\ Cardinality({new[i][1] : i \in 1..Len(new)}) = Len(new)
       /\ \A key \in keys :
            LET H == Hits(s, key) IN
            IF H # {}
            THEN /\ DictHas(new, key)
                 /\ DictGet(new, key) =
                      decode(ValueBytes(RowAt(s, CHOOSE k \in H : \A j \in H : j <= k))).value
            ELSE /\ DictHas(old, key)
                 /\ DictHas(new, key)
                 /\ DictGet(new, key) = DictGet(old, key)

\* C10: each parse_cmd() call leaves, under every key, the trimmed text after
\* the first ": " of the most recent processed line with that trimmed key,
\* lines without ": " or with an empty key add nothing, nothing is removed;
\* get_ip() returns the value under "IP Address" or ends fatally.
DiscoveryMappingTracksLines ==
    [][/\ (op = "run_cmd" /\ op' = "parse_cmd") => ParseEffect(bmc, stdout, bmc')
       /\ (op' = "get_ip") =>
            IF DictHas(bmc', IPKey)
            THEN ip_result' = Return(DictGet(bmc', IPKey))
            ELSE ip_result'.kind = "fatal" /\ pc' = "aborted"]_vars

\* get_ip() answered from an output that gave the address twice, after an
\* earlier output had given it as well
DiscoveryMappingTracksLinesWitness ==
    /\ op = "get_ip" /\ ip_result.kind = "return"
    /\ Cardinality(Hits(stdout, IPKey)) = 2
    /\ ip_result.value # decode(ValueBytes(RowAt(stdout, 1))).value
    /\ Len(bmc) >= 2

(***************************************************************************)
(* Remote session: connect_redfish(), get_redfish_url(), __del__() and     *)
(* Vendor.prepare().                                                       *)
(***************************************************************************)
MaxSessions == 3

\* the name the vendor of the tests gives itself
VendorName == "Hpe"

Https == <<"h", "t", "t", "p", "s", ":", "/", "/">>

\* sub in s
Contains(s, sub) ==
    \E i \in 1..(Len(s) - Len(sub) + 1) : SubSeq(s, i, i + Len(sub) - 1) = sub

\* what redfish_client(...) and login() can do: "ok", or the exception raised
CallOutcomes ==
    {"ok", "JSONDecodeError", "RetriesExhaustedError", "BadRequestError",
     "InvalidCredentialsError", "Exception"}

Session(n) == [py |-> "session", id |-> n]

\* session.logout()
logout(sess, robj) ==
    [sess EXCEPT ![robj.id].state = "logged_out", ![robj.id].logouts = @ + 1]

\* BMC.connect_redfish on a controller with discovery mapping `mapping` and
\* session handle robj; ctor and login are what the client library does
connect_redfish(mapping, cfg, robj, sess, ctor, login) ==
    LET names == <<VendorName, "default">>
        found == {i \in 1..Len(names) : names[i] \in DOMAIN cfg}
        same(outcome) == [redfish_obj |-> robj, sessions |-> sess, outcome |-> outcome]
    IN
    IF found = {} THEN same(fatal("Cannot find any section in monitoring configuration file"))
    ELSE LET section_name == names[CHOOSE i \in found : \A j \in found : i <= j] IN
    IF ~({"username", "password"} \subseteq cfg[section_name]) THEN same(Raise("NoOptionError"))
    ELSE LET ip == get_ip(mapping) IN
    IF ip.kind = "fatal" THEN same(ip)
    ELSE LET server_url == IF ~Contains(ip.value, Https) THEN Https \o ip.value ELSE ip.value IN
    IF ctor # "ok" THEN same(fatal(ctor))
    ELSE LET created == Append(sess, [base_url |-> server_url, logins |-> 0, logouts |-> 0,
                                       state |-> "created"])
             handle == Session(Len(created))
         IN IF login # "ok"
            THEN [redfish_obj |-> handle, sessions |-> created, outcome |-> fatal(login)]
            ELSE [redfish_obj |-> handle,
                  sessions |-> [created EXCEPT ![handle.id].state = "logged_in",
                                               ![handle.id].logins = 1],
                  outcome |-> Return(None)]

Dict(d) == [py |-> "dict", d |-> d]

\* bool(x) for a dict or None
truthy(x) == x.py = "dict" /\ DOMAIN x.d # {}

\* BMC.get_redfish_url, given the session handle and what get(url, None).dict
\* does.  The assignment makes `redfish` a local name of the function, so the
\* except clauses, which name redfish.rest.v1..., read an unbound local when
\* the try body raised before the assignment.
get_redfish_url(robj, got) ==
    IF robj = None THEN Raise("UnboundLocalError")
    ELSE IF got.kind = "raise" THEN Raise("UnboundLocalError")
    ELSE LET redfish == got.value IN
         IF truthy(redfish) /\ "error" \in DOMAIN redfish.d THEN Return(Dict(EmptyDoc))
         ELSE Return(redfish)

\* External.run(): runs the command and gives its output to parse_cmd()
run(mapping, out) == parse_cmd(mapping, out).bmc

(***************************************************************************)
(* SpecSession: prepare(), connect_redfish(), get_redfish_url() and the    *)
(* controller's teardown, in any order.                                    *)
(***************************************************************************)
\* b'IP Address : https://h'
RowIpHttps ==
    <<"I", "P", " ", "A", "d", "d", "r", "e", "s", "s", " ", ":", " ",
      "h", "t", "t", "p", "s", ":", "/", "/", "h">>

SessionStdouts == {JoinLines(<<RowIp1>>), JoinLines(<<RowIpHttps>>), JoinLines(<<RowNoSep>>)}

Credentials == {"username", "password"}

Configs ==
    {EmptyDoc,
     "default" :> Credentials,
     "default" :> {"username"},
     (VendorName :> Credentials) @@ ("default" :> Credentials)}

Responses ==
    {Return(Dict("Fans" :> <<>>)), Return(Dict("error" :> <<>>)), Return(Dict(EmptyDoc)),
     Return(None), Raise("RetriesExhaustedError"), Raise("JSONDecodeError")}

InitSession ==
    /\ vendor_bmc = None /\ controllers = 0
    /\ config \in Configs
    /\ sessions = <<>> /\ pc = "running" /\ response = None /\ url_result = None
    /\ bmc = <<>> /\ redfish_obj = None
    /\ stdout = <<>> /\ ip_result = None
    /\ thermal = EmptyDoc /\ power = EmptyDoc /\ op = "none" /\ result = None
    /\ IdleMetric

\* Vendor.prepare()
Prepare ==
    /\ pc = "running" /\ Len(sessions) < MaxSessions
    /\ \E out \in SessionStdouts, ctor \in CallOutcomes, login \in CallOutcomes :
        LET fresh == vendor_bmc = None
            mapping == IF fresh THEN run(<<>>, out) ELSE bmc
            handle == IF fresh THEN None ELSE redfish_obj
            c == connect_redfish(mapping, config, handle, sessions, ctor, login)
        IN /\ vendor_bmc' = IF fresh THEN [py |-> "BMC", id |-> controllers + 1] ELSE vendor_bmc
           /\ controllers' = IF fresh THEN controllers + 1 ELSE controllers
           /\ stdout' = IF fresh THEN out ELSE stdout
           /\ bmc' = mapping
           /\ redfish_obj' = c.redfish_obj
           /\ sessions' = c.sessions
           /\ result' = c.outcome
           /\ pc' = IF c.outcome.kind = "fatal" THEN "aborted" ELSE pc
    /\ op' = "prepare"
    /\ UNCHANGED <<thermal, power, metricVars, config, response, url_result, ip_result>>

\* BMC.connect_redfish() called on the controller directly
ConnectRedfish ==
    /\ pc = "running" /\ vendor_bmc # None /\ Len(sessions) < MaxSessions
    /\ \E ctor \in CallOutcomes, login \in CallOutcomes :
        LET c == connect_redfish(bmc, config, redfish_obj, sessions, ctor, login) IN
           /\ redfish_obj' = c.redfish_obj
           /\ sessions' = c.sessions
           /\ result' = c.outcome
           /\ pc' = IF c.outcome.kind = "fatal" THEN "aborted" ELSE pc
    /\ op' = "connect_redfish"
    /\ UNCHANGED <<thermal, power, metricVars, bmc, vendor_bmc, controllers, config,
                   response, url_result, parseVars>>

\* BMC.get_redfish_url(url)
GetRedfishUrl ==
    /\ pc = "running" /\ vendor_bmc # None
    /\ \E got \in Responses :
        /\ response' = got
        /\ url_result' = get_redfish_url(redfish_obj, got)
    /\ op' = "get_redfish_url"
    /\ UNCHANGED <<thermal, power, result, metricVars, bmcVars, vendor_bmc, controllers,
                   config, sessions, pc, parseVars>>

\* BMC.__del__(): the controller is discarded, with its owner or as the
\* process ends
Teardown ==
    /\ pc \in {"running", "aborted"} /\ vendor_bmc # None
    /\ sessions' = IF redfish_obj # None THEN logout(sessions, redfish_obj) ELSE sessions
    /\ pc' = "torn_down"
    /\ op' = "__del__"
    /\ UNCHANGED <<thermal, power, result, metricVars, bmcVars, vendor_bmc, controllers,
                   config, response, url_result, parseVars>>

NextSession == Prepare \/ ConnectRedfish \/ GetRedfishUrl \/ Teardown

SpecSession == InitSession /\ [][NextSession]_vars

Connected == redfish_obj # None /\ sessions[redfish_obj.id].state = "logged_in"

\* C2: once a controller with a connected session exists, a further prepare()
\* constructs no controller and creates or logs in no session.
PrepareIsIdempotent ==
    [][(op' = "prepare" /\ vendor_bmc # None /\ Connected) =>
          /\ controllers' = controllers
          /\ sessions' = sessions
          /\ redfish_obj' = redfish_obj]_vars

\* C3: at most one session is logged in and not yet logged out; no session is
\* logged out before teardown, none more than once, none that never logged
\* in; after teardown every session that logged in is logged out.
SessionReleasedExactlyOnce ==
    /\ Cardinality({i \in 1..Len(sessions) : sessions[i].state = "logged_in"}) <= 1
    /\ \A i \in 1..Len(sessions) :
        /\ sessions[i].logouts <= sessions[i].logins
        /\ pc # "torn_down" => sessions[i].logouts = 0
        /\ pc = "torn_down" => sessions[i].logouts = sessions[i].logins

\* C4: get_redfish_url() on a connected controller never raises: {} for a
\* document with an "error" key, None when get() raised, else the document.
FetchNeverRaises ==
    (op = "get_redfish_url" /\ redfish_obj # None) =>
        url_result =
            IF response.kind = "raise" THEN Return(None)
            ELSE IF response.value # None /\ "error" \in DOMAIN response.value.d
                 THEN Return(Dict(EmptyDoc))
                 ELSE Return(response.value)

====
